---- MODULE Spec2Model ----
(***************************************************************************)
(* Model of genDot and findNextBlockWithNodes (src/main.go): one traversal *)
(* of a control-flow graph that assembles the DOT document, the variable   *)
(* trace, the Chepin role sets and the cyclomatic complexity.              *)
(*                                                                         *)
(* Strings are TLA+ strings; fmt.Sprintf is modelled by concatenation.     *)
(* The document is the sequence of the statements appended to `dot`, each  *)
(* a record naming the format string that produced it and its arguments.   *)
(***************************************************************************)
EXTENDS Integers, Sequences, FiniteSets, TLC

VARIABLES cg, pc, bi, ni, si, prevNodeID, lastNodeID, loopID,
          dot, variables, inputVars, modifiedVars, controlVars, unusedVars,
          traceDone, Q2, numEdges, numNodes, cyclomaticComplexity,
          run, firstDot, gathered,
          findPc, findStart, findQueue, findVisited, findResult

vars == <<cg, pc, bi, ni, si, prevNodeID, lastNodeID, loopID,
          dot, variables, inputVars, modifiedVars, controlVars, unusedVars,
          traceDone, Q2, numEdges, numNodes, cyclomaticComplexity,
          run, firstDot, gathered,
          findPc, findStart, findQueue, findVisited, findResult>>

(***************************************************************************)
(* Bounds of the input families.                                           *)
(***************************************************************************)
MaxNodes == 2

NumBlocks == 4

(***************************************************************************)
(* AST values.  A node or expression is a record whose field t is its Go   *)
(* dynamic type.                                                           *)
(***************************************************************************)
Ident(name) == [t |-> "Ident", Name |-> name]

BasicLit(value) == [t |-> "BasicLit", Value |-> value]

BinaryExpr(x, op, y) == [t |-> "BinaryExpr", X |-> x, Op |-> op, Y |-> y]

CallExpr(fun, args) == [t |-> "CallExpr", Fun |-> fun, Args |-> args]

SelectorExpr(x, sel) == [t |-> "SelectorExpr", X |-> x, Sel |-> sel]

ParenExpr(x) == [t |-> "ParenExpr", X |-> x]

IndexExpr(x, index) == [t |-> "IndexExpr", X |-> x, Index |-> index]

ValueSpec(names, values) == [t |-> "ValueSpec", Names |-> names, Values |-> values]

DeclStmt(spec) == [t |-> "DeclStmt", Spec |-> spec]

AssignStmt(lhs, rhs) == [t |-> "AssignStmt", Lhs |-> lhs, Rhs |-> rhs]

ReturnStmt(results) == [t |-> "ReturnStmt", Results |-> results]

ExprStmt(x) == [t |-> "ExprStmt", X |-> x]

IncDecStmt(x, tok) == [t |-> "IncDecStmt", X |-> x, Tok |-> tok]

IfStmt(cond, hasElse) == [t |-> "IfStmt", Cond |-> cond, Else |-> hasElse]

ForStmt(cond) == [t |-> "ForStmt", Cond |-> cond]

BranchStmt(tok) == [t |-> "BranchStmt", Tok |-> tok]

GoStmt == [t |-> "GoStmt"]

\* fmt's %T of an AST value.
TypeName(v) == "*ast." \o v.t

(***************************************************************************)
(* getValue (main.go:446-464).                                             *)
(***************************************************************************)
RECURSIVE getValue(_)
getValue(expr) ==
    CASE expr.t = "BasicLit" -> expr.Value
      [] expr.t = "Ident" -> expr.Name
      [] expr.t = "BinaryExpr" ->
            getValue(expr.X) \o " " \o expr.Op \o " " \o getValue(expr.Y)
      [] expr.t = "CallExpr" ->
            IF expr.Fun.t = "Ident" THEN expr.Fun.Name ELSE "function call"
      [] expr.t = "SelectorExpr" -> getValue(expr.X) \o "." \o expr.Sel
      [] OTHER -> TypeName(expr)

\* strings.Join(values, ", ")
RECURSIVE Join(_)
Join(values) ==
    IF Len(values) = 0 THEN ""
    ELSE IF Len(values) = 1 THEN values[1]
    ELSE values[1] \o ", " \o Join(Tail(values))

\* the values of a list of expressions, as the loops over Args and Results
\* collect them
GetValues(exprs) == [k \in 1..Len(exprs) |-> getValue(exprs[k])]

(***************************************************************************)
(* The CFG, as the cfg package delivers it: cg.Blocks[i].Index = i.        *)
(***************************************************************************)
Block(index, live, kind, nodes, succs) ==
    [Index |-> index, Live |-> live, Kind |-> kind, Nodes |-> nodes, Succs |-> succs]

\* cg.Blocks[index] (Go slices are 0-based)
BlockAt(g, index) == g.Blocks[index + 1]

\* cfg.Block.String(): "block <index> (<kind>)"
BlockString(b) == "block " \o ToString(b.Index) \o " (" \o b.Kind \o ")"

BlockID(index) == "block_" \o ToString(index)

NodeID(index, i) == BlockID(index) \o "_node_" \o ToString(i)

(***************************************************************************)
(* Statements of the document.  fmt names the format string of the         *)
(* Sprintf that produced the statement.                                    *)
(***************************************************************************)
NodeStmt(id, label) ==
    [fmt |-> "node", src |-> id, dst |-> "", label |-> label, color |-> ""]

EdgeStmt(f, src, dst, label, color) ==
    [fmt |-> f, src |-> src, dst |-> dst, label |-> label, color |-> color]

OpenStmt == [fmt |-> "digraph G {", src |-> "", dst |-> "", label |-> "", color |-> ""]

CloseStmt == [fmt |-> "}", src |-> "", dst |-> "", label |-> "", color |-> ""]

\* variables[name] = append(variables[name], nodeID)
AppendTrace(vs, name, nodeID) ==
    IF name \in DOMAIN vs THEN [vs EXCEPT ![name] = Append(@, nodeID)]
    ELSE vs @@ (name :> <<nodeID>>)

\* inputVars[name]++
IncCount(iv, name) ==
    IF name \in DOMAIN iv THEN [iv EXCEPT ![name] = @ + 1]
    ELSE iv @@ (name :> 1)

(***************************************************************************)
(* The body of the loop over block.Nodes (main.go:501-639).  st is the     *)
(* part of genDot's state a node can change; st.panic is set where the Go  *)
(* runtime panics (index out of range, failed type assertion), which       *)
(* unwinds genDot.                                                         *)
(***************************************************************************)
Emit(st, stmt) == [st EXCEPT !.dot = Append(@, stmt)]

Panic(st) == [st EXCEPT !.panic = TRUE]

\* main.go:505-513 (sentinel "nul") and main.go:517-525 (sentinel "nil")
RECURSIVE ValueSpecNames(_, _, _, _, _)
ValueSpecNames(st, spec, nodeID, sentinel, j) ==
    IF j > Len(spec.Names) THEN st
    ELSE LET name == spec.Names[j]
             value == IF j <= Len(spec.Values) THEN getValue(spec.Values[j])
                      ELSE sentinel
             st1 == [Emit(st, NodeStmt(nodeID, name \o " = " \o value))
                        EXCEPT !.variables = AppendTrace(@, name, nodeID),
                               !.inputVars = IncCount(@, name)]
         IN  ValueSpecNames(st1, spec, nodeID, sentinel, j + 1)

\* main.go:527-540
RECURSIVE AssignLhs(_, _, _, _)
AssignLhs(st, n, nodeID, j) ==
    IF j > Len(n.Lhs) THEN st
    ELSE IF n.Lhs[j].t # "Ident" THEN AssignLhs(st, n, nodeID, j + 1)
    ELSE LET name == n.Lhs[j].Name
             value == IF j <= Len(n.Rhs) THEN getValue(n.Rhs[j]) ELSE "nil"
             st1 == [Emit(st, NodeStmt(nodeID, name \o " = " \o value))
                        EXCEPT !.variables = AppendTrace(@, name, nodeID),
                               !.inputVars = IncCount(@, name)]
         IN  \* line 536 reads n.Rhs[j] without the bound check of line 530
             IF j > Len(n.Rhs) THEN Panic(st1)
             ELSE IF n.Rhs[j].t = "BinaryExpr"
                  THEN AssignLhs([st1 EXCEPT !.modifiedVars = @ \cup {name}],
                                 n, nodeID, j + 1)
                  ELSE AssignLhs(st1, n, nodeID, j + 1)

\* main.go:542-548
RECURSIVE ReturnResults(_, _, _, _)
ReturnResults(st, n, nodeID, j) ==
    IF j > Len(n.Results)
    THEN Emit(st, NodeStmt(nodeID, "Return: " \o Join(GetValues(n.Results))))
    ELSE ReturnResults(
             [st EXCEPT !.variables = AppendTrace(@, getValue(n.Results[j]), nodeID)],
             n, nodeID, j + 1)

\* "<fun>(<arg0>, <arg1>, ...)" (main.go:554-559, 575-580)
CallLabel(e) == getValue(e.Fun) \o "(" \o Join(GetValues(e.Args)) \o ")"

\* main.go:550-564.  The escaping of double quotes (line 560) changes
\* nothing here: no label of the model holds a double quote.
ExprStmtNode(st, n, nodeID) ==
    CASE n.X.t = "BinaryExpr" ->
            Emit(st, NodeStmt(nodeID,
                getValue(n.X.X) \o " " \o n.X.Op \o " " \o getValue(n.X.Y)))
      [] n.X.t = "CallExpr" -> Emit(st, NodeStmt(nodeID, CallLabel(n.X)))
      [] OTHER ->
            Emit(st, NodeStmt(nodeID, "(Unhandled Expr): " \o TypeName(n.X)))

\* main.go:566-569
IncDecNode(st, n, nodeID) ==
    IF n.X.t # "Ident" THEN Panic(st)
    ELSE [Emit(st, NodeStmt(nodeID, n.X.Name \o " " \o n.Tok))
             EXCEPT !.variables = AppendTrace(@, n.X.Name, nodeID),
                    !.modifiedVars = @ \cup {n.X.Name}]

\* main.go:571-573
BinaryExprNode(st, n, nodeID) ==
    [Emit(st, NodeStmt(nodeID, getValue(n.X) \o " " \o n.Op \o " " \o getValue(n.Y)))
        EXCEPT !.controlVars = @ \cup {getValue(n.X), getValue(n.Y)}]

\* main.go:584-588
ParenExprNode(st, n, nodeID) ==
    IF n.X.t = "BinaryExpr"
    THEN Emit(st, NodeStmt(nodeID,
             getValue(n.X.X) \o " " \o n.X.Op \o " " \o getValue(n.X.Y)))
    ELSE Emit(st, NodeStmt(nodeID, getValue(n.X)))

\* the edge from an if/for node to the placeholder of block.Succs[k]
\* (main.go:595-597, 599-601, 610-615); k counts from 0
BranchEdge(g, block, nodeID, k, color) ==
    EdgeStmt("branch", nodeID, BlockID(block.Succs[k + 1]),
             BlockString(BlockAt(g, block.Succs[k + 1])), color)

\* main.go:590-602
IfStmtNode(st, g, block, n, nodeID) ==
    LET st1 == [Emit(st, NodeStmt(nodeID, "if " \o getValue(n.Cond)))
                   EXCEPT !.controlVars = @ \cup {getValue(n.Cond)}]
    IN  IF Len(block.Succs) < 1 THEN Panic(st1)
        ELSE LET st2 == Emit(st1, BranchEdge(g, block, nodeID, 0, "yellow"))
             IN  IF ~n.Else THEN st2
                 ELSE IF Len(block.Succs) < 2 THEN Panic(st2)
                 ELSE Emit(st2, BranchEdge(g, block, nodeID, 1, "red"))

\* main.go:604-615
ForStmtNode(st, g, block, n, nodeID) ==
    LET st1 == [Emit([st EXCEPT !.loopID = nodeID],
                     NodeStmt(nodeID, "for " \o getValue(n.Cond)))
                   EXCEPT !.controlVars = @ \cup {getValue(n.Cond)}]
    IN  IF Len(block.Succs) < 1 THEN Panic(st1)
        ELSE LET st2 == Emit(st1, BranchEdge(g, block, nodeID, 0, "yellow"))
             IN  IF Len(block.Succs) < 2 THEN Panic(st2)
                 ELSE Emit(st2, BranchEdge(g, block, nodeID, 1, "red"))

\* main.go:618-625
BranchStmtNode(st, n, nodeID) ==
    CASE n.Tok = "continue" ->
            Emit(Emit(st, NodeStmt(nodeID, "continue")),
                 EdgeStmt("jump", nodeID, st.loopID, "continue", ""))
      [] n.Tok = "break" ->
            Emit(Emit(st, NodeStmt(nodeID, "break")),
                 EdgeStmt("jump", nodeID, st.loopID, "break", ""))
      [] OTHER -> st

\* the type switch of main.go:503-629
ClassifyNode(st, g, block, n, nodeID) ==
    CASE n.t = "ValueSpec" -> ValueSpecNames(st, n, nodeID, "nul", 1)
      [] n.t = "DeclStmt" ->
            IF n.Spec.t # "ValueSpec" THEN Panic(st)
            ELSE ValueSpecNames(st, n.Spec, nodeID, "nil", 1)
      [] n.t = "AssignStmt" -> AssignLhs(st, n, nodeID, 1)
      [] n.t = "ReturnStmt" -> ReturnResults(st, n, nodeID, 1)
      [] n.t = "ExprStmt" -> ExprStmtNode(st, n, nodeID)
      [] n.t = "IncDecStmt" -> IncDecNode(st, n, nodeID)
      [] n.t = "BinaryExpr" -> BinaryExprNode(st, n, nodeID)
      [] n.t = "CallExpr" -> Emit(st, NodeStmt(nodeID, CallLabel(n)))
      [] n.t = "SelectorExpr" ->
            Emit(st, NodeStmt(nodeID, getValue(n.X) \o "." \o n.Sel))
      [] n.t = "ParenExpr" -> ParenExprNode(st, n, nodeID)
      [] n.t = "IfStmt" -> IfStmtNode(st, g, block, n, nodeID)
      [] n.t = "ForStmt" -> ForStmtNode(st, g, block, n, nodeID)
      [] n.t = "BranchStmt" -> BranchStmtNode(st, n, nodeID)
      [] OTHER -> Emit(st, NodeStmt(nodeID, "(Unhandled): " \o TypeName(n)))

\* the sequential edge of main.go:630-632
SequentialEdge(st, prev, nodeID) ==
    IF prev # "" THEN Emit(st, EdgeStmt("seq", prev, nodeID, "", "")) ELSE st

(***************************************************************************)
(* findNextBlockWithNodes (main.go:751-773).  Nil stands for the nil       *)
(* result; a block is returned by its index.                               *)
(***************************************************************************)
Nil == -1

\* BfsLoop taking the newest entry of the queue instead of the oldest
RECURSIVE BfsLoopLifo(_, _, _)
BfsLoopLifo(g, queue, visited) ==
    IF Len(queue) = 0 THEN Nil
    ELSE LET currentIndex == queue[Len(queue)]
             visited1 == visited \cup {currentIndex}
             currentBlock == BlockAt(g, currentIndex)
         IN  IF Len(currentBlock.Nodes) > 0 THEN currentIndex
             ELSE BfsLoopLifo(g,
                              SubSeq(queue, 1, Len(queue) - 1)
                                 \o SelectSeq(currentBlock.Succs,
                                              LAMBDA s : s \notin visited1),
                              visited1)

\* the loop of main.go:755-770 from the state (queue, visited)
RECURSIVE BfsLoop(_, _, _)
BfsLoop(g, queue, visited) ==
    IF Len(queue) = 0 THEN Nil
    ELSE LET currentIndex == Head(queue)
             visited1 == visited \cup {currentIndex}
             currentBlock == BlockAt(g, currentIndex)
         IN  IF Len(currentBlock.Nodes) > 0 THEN currentIndex
             ELSE BfsLoop(g,
                          Tail(queue) \o SelectSeq(currentBlock.Succs,
                                             LAMBDA s : s \notin visited1),
                          visited1)

findNextBlockWithNodes(g, startIndex) == BfsLoop(g, <<startIndex>>, {})

(***************************************************************************)
(* The loop over block.Succs after the nodes of a block (main.go:640-679). *)
(***************************************************************************)
\* SuccColor with KindForDone left out of the second test
SuccColorNoLoopExit(kind) ==
    IF kind = "IfThen" \/ kind = "ForBody" THEN "yellow"
    ELSE IF kind = "IfDone" \/ kind = "IfElse" THEN "red"
    ELSE "black"

\* main.go:643-648
SuccColor(kind) ==
    IF kind = "IfThen" \/ kind = "ForBody" THEN "yellow"
    ELSE IF kind = "IfDone" \/ kind = "IfElse" \/ kind = "ForDone" THEN "red"
    ELSE "black"

\* the test of main.go:659 and 670 on succBlockLabel = "block <n> (<Kind>)":
\* it contains "(IfDone)", "(IfThen)" or "(For"
ForKinds == {"ForBody", "ForDone", "ForLoop", "ForPost"}

IsDecisionLabel(b) == b.Kind = "IfDone" \/ b.Kind = "IfThen" \/ b.Kind \in ForKinds

\* main.go:657-663 and 668-674: the edge to the first node of block b
AnchoredEdge(last, b, color) ==
    IF IsDecisionLabel(b)
    THEN EdgeStmt("decorate", last, NodeID(b.Index, 0), BlockString(b), color)
    ELSE EdgeStmt("cross", last, NodeID(b.Index, 0), "", color)

\* one iteration of the loop of main.go:640-679, as the statements it appends
SuccEdge(g, last, succIndex) ==
    LET succBlock == BlockAt(g, succIndex)
        color == SuccColor(succBlock.Kind)
    IN  IF last = "" THEN <<>>
        ELSE IF Len(succBlock.Nodes) > 0 THEN <<AnchoredEdge(last, succBlock, color)>>
        ELSE LET next == findNextBlockWithNodes(g, succIndex)
             IN  IF next # Nil THEN <<AnchoredEdge(last, BlockAt(g, next), color)>>
                 ELSE <<EdgeStmt("cross", last, BlockID(succIndex), "", color)>>

(***************************************************************************)
(* The trace edges of one variable (main.go:682-686).                      *)
(***************************************************************************)
\* TraceEdges with the loop started at i := 2
TraceEdgesFromSecond(varName, nodes) ==
    IF Len(nodes) > 2
    THEN [i \in 1..(Len(nodes) - 2) |->
             EdgeStmt("trace", nodes[i + 1], nodes[i + 2], varName, "")]
    ELSE <<>>

TraceEdges(varName, nodes) ==
    IF Len(nodes) > 1
    THEN [i \in 1..(Len(nodes) - 1) |->
             EdgeStmt("trace", nodes[i], nodes[i + 1], varName, "")]
    ELSE <<>>

(***************************************************************************)
(* Chepin's metric (main.go:696-719).                                      *)
(***************************************************************************)
\* delete(m, k) for every k of ks, on a map
DeleteKeys(m, ks) == [k \in (DOMAIN m) \ ks |-> m[k]]

\* Reconcile without the delete(modifiedVars, varName) of line 699
ReconcileKeepModified(iv, mv, cv, uv) ==
    LET iv1 == DeleteKeys(iv, cv)
        iv2 == DeleteKeys(iv1, mv)
        once == {k \in DOMAIN iv2 : iv2[k] = 1}
    IN  [inputVars |-> DeleteKeys(iv2, once), modifiedVars |-> mv,
         controlVars |-> cv, unusedVars |-> uv \cup once]

\* main.go:697-710: the three loops that remove the intersections and move
\* the names counted once to unusedVars
Reconcile(iv, mv, cv, uv) ==
    LET iv1 == DeleteKeys(iv, cv)
        mv1 == mv \ cv
        iv2 == DeleteKeys(iv1, mv1)
        once == {k \in DOMAIN iv2 : iv2[k] = 1}
    IN  [inputVars |-> DeleteKeys(iv2, once), modifiedVars |-> mv1,
         controlVars |-> cv, unusedVars |-> uv \cup once]

\* ChepinQ2 with 0.5*T computed in integers (T/2)
ChepinQ2Truncated(P, M, C, T) == 2 * P + 4 * M + 6 * C + 2 * (T \div 2)

\* main.go:713-719, doubled: Q = P + 2M + 3C + 0.5T is a multiple of 0.5 and
\* Q2 holds 2Q
ChepinQ2(P, M, C, T) == 2 * P + 4 * M + 6 * C + T

(***************************************************************************)
(* Cyclomatic complexity (main.go:729-737).                                *)
(***************************************************************************)
\* CountLive without the test of block.Live
RECURSIVE CountAll(_, _, _)
CountAll(blocks, k, acc) ==
    IF k > Len(blocks) THEN acc
    ELSE CountAll(blocks, k + 1,
                  [numNodes |-> acc.numNodes + 1,
                   numEdges |-> acc.numEdges + Len(blocks[k].Succs)])

\* CountLive counting only the live blocks that hold statements
RECURSIVE CountLiveWithNodes(_, _, _)
CountLiveWithNodes(blocks, k, acc) ==
    IF k > Len(blocks) THEN acc
    ELSE IF blocks[k].Live
         THEN CountLiveWithNodes(blocks, k + 1,
                  [numNodes |-> acc.numNodes
                                   + (IF Len(blocks[k].Nodes) > 0 THEN 1 ELSE 0),
                   numEdges |-> acc.numEdges + Len(blocks[k].Succs)])
         ELSE CountLiveWithNodes(blocks, k + 1, acc)

\* the loop of main.go:731-736 from block position k, with the counters so far
RECURSIVE CountLive(_, _, _)
CountLive(blocks, k, acc) ==
    IF k > Len(blocks) THEN acc
    ELSE IF blocks[k].Live
         THEN CountLive(blocks, k + 1,
                        [numNodes |-> acc.numNodes + 1,
                         numEdges |-> acc.numEdges + Len(blocks[k].Succs)])
         ELSE CountLive(blocks, k + 1, acc)

\* main.go:743-744: the regexp strips "block <n> " from a label that is a
\* block's String()
CleanLabel(g, stmt) ==
    IF \E k \in 1..Len(g.Blocks) : stmt.label = BlockString(g.Blocks[k])
    THEN LET k == CHOOSE k \in 1..Len(g.Blocks) : stmt.label = BlockString(g.Blocks[k])
         IN  [stmt EXCEPT !.label = "(" \o g.Blocks[k].Kind \o ")"]
    ELSE stmt

(***************************************************************************)
(* genDot (main.go:466-749) as a state machine.  pc names the loop the     *)
(* traversal is in; bi, ni and si are the positions in cg.Blocks,          *)
(* block.Nodes and block.Succs, counted from 0.                            *)
(***************************************************************************)
CurrentBlock == BlockAt(cg, bi)

\* gathered is a history variable: the role sets as the traversal gathered
\* them, before the reconciliation of main.go:696-710
NoSets == [inputVars |-> <<>>, modifiedVars |-> {}, controlVars |-> {},
           unusedVars |-> {}]

\* the state of a call of findNextBlockWithNodes (main.go:751-773): its
\* position, its argument, its locals queue and visited, and what it returned
findVars == <<findPc, findStart, findQueue, findVisited, findResult>>

\* no call of findNextBlockWithNodes is being followed
FindIdle ==
    /\ findPc = "idle"
    /\ findStart = Nil
    /\ findQueue = <<>>
    /\ findVisited = {}
    /\ findResult = Nil

\* main.go:468-476: genDot's locals at entry
Entry(g) ==
    /\ cg = g
    /\ pc = "blocks"
    /\ bi = 0 /\ ni = 0 /\ si = 0
    /\ prevNodeID = "" /\ lastNodeID = "" /\ loopID = ""
    /\ dot = <<OpenStmt>>
    /\ variables = <<>>
    /\ inputVars = <<>>
    /\ modifiedVars = {} /\ controlVars = {} /\ unusedVars = {}
    /\ traceDone = {}
    /\ Q2 = 0 /\ numEdges = 0 /\ numNodes = 0 /\ cyclomaticComplexity = 0
    /\ run = 1 /\ firstDot = <<>>
    /\ gathered = NoSets
    /\ FindIdle

\* main.go:477-487: the head of the loop over cg.Blocks
VisitBlock ==
    /\ pc = "blocks"
    /\ IF bi >= Len(cg.Blocks)
       THEN /\ pc' = "trace"
            /\ UNCHANGED <<bi, ni, prevNodeID, lastNodeID, loopID>>
       ELSE IF ~CurrentBlock.Live
       THEN /\ bi' = bi + 1
            /\ UNCHANGED <<pc, ni, prevNodeID, lastNodeID, loopID>>
       ELSE /\ pc' = "nodes"
            /\ ni' = 0
            /\ prevNodeID' = "" /\ lastNodeID' = "" /\ loopID' = ""
            /\ UNCHANGED bi
    /\ UNCHANGED <<cg, si, dot, variables, inputVars, modifiedVars, controlVars,
                   unusedVars, traceDone, Q2, numEdges, numNodes,
                   cyclomaticComplexity, run, firstDot, gathered>>
    /\ UNCHANGED findVars

\* main.go:501-639: one node of the current block, or the end of the loop
VisitNode ==
    /\ pc = "nodes"
    /\ IF ni >= Len(CurrentBlock.Nodes)
       THEN /\ pc' = "succs"
            /\ si' = 0
            /\ UNCHANGED <<ni, prevNodeID, lastNodeID, loopID, dot, variables,
                           inputVars, modifiedVars, controlVars>>
       ELSE LET nodeID == NodeID(CurrentBlock.Index, ni)
                st0 == [dot |-> dot, variables |-> variables,
                        inputVars |-> inputVars, modifiedVars |-> modifiedVars,
                        controlVars |-> controlVars, loopID |-> loopID,
                        panic |-> FALSE]
                st1 == ClassifyNode(st0, cg, CurrentBlock,
                                    CurrentBlock.Nodes[ni + 1], nodeID)
                st2 == IF st1.panic THEN st1
                       ELSE SequentialEdge(st1, prevNodeID, nodeID)
            IN  /\ dot' = st2.dot
                /\ variables' = st2.variables
                /\ inputVars' = st2.inputVars
                /\ modifiedVars' = st2.modifiedVars
                /\ controlVars' = st2.controlVars
                /\ loopID' = st2.loopID
                /\ IF st2.panic
                   THEN /\ pc' = "panic"
                        /\ UNCHANGED <<ni, prevNodeID, lastNodeID>>
                   ELSE /\ pc' = pc
                        /\ ni' = ni + 1
                        /\ prevNodeID' = nodeID
                        /\ lastNodeID' = nodeID
                /\ UNCHANGED si
    /\ UNCHANGED <<cg, bi, unusedVars, traceDone, Q2, numEdges, numNodes,
                   cyclomaticComplexity, run, firstDot, gathered>>
    /\ UNCHANGED findVars

\* main.go:640-679: one successor of the current block, or the end of the loop
EmitSuccEdge ==
    /\ pc = "succs"
    /\ IF si >= Len(CurrentBlock.Succs)
       THEN /\ pc' = "blocks"
            /\ bi' = bi + 1
            /\ UNCHANGED <<si, dot>>
       ELSE /\ dot' = dot \o SuccEdge(cg, lastNodeID, CurrentBlock.Succs[si + 1])
            /\ si' = si + 1
            /\ UNCHANGED <<pc, bi>>
    /\ UNCHANGED <<cg, ni, prevNodeID, lastNodeID, loopID, variables, inputVars,
                   modifiedVars, controlVars, unusedVars, traceDone, Q2, numEdges,
                   numNodes, cyclomaticComplexity, run, firstDot, gathered>>
    /\ UNCHANGED findVars

\* main.go:681-687: one entry of the map `variables`; Go leaves the order of
\* a range over a map unspecified, so any entry not yet visited may come next
EmitTraceEdges ==
    /\ pc = "trace"
    /\ IF (DOMAIN variables) \ traceDone = {}
       THEN /\ pc' = "chepin"
            /\ UNCHANGED <<dot, traceDone>>
       ELSE \E varName \in (DOMAIN variables) \ traceDone :
               /\ dot' = dot \o TraceEdges(varName, variables[varName])
               /\ traceDone' = traceDone \cup {varName}
               /\ UNCHANGED pc
    /\ UNCHANGED <<cg, bi, ni, si, prevNodeID, lastNodeID, loopID, variables,
                   inputVars, modifiedVars, controlVars, unusedVars, Q2, numEdges,
                   numNodes, cyclomaticComplexity, run, firstDot, gathered>>
    /\ UNCHANGED findVars

\* main.go:696-725
ChepinScore ==
    /\ pc = "chepin"
    /\ LET r == Reconcile(inputVars, modifiedVars, controlVars, unusedVars)
       IN  /\ inputVars' = r.inputVars
           /\ modifiedVars' = r.modifiedVars
           /\ controlVars' = r.controlVars
           /\ unusedVars' = r.unusedVars
           /\ Q2' = ChepinQ2(Cardinality(DOMAIN r.inputVars),
                             Cardinality(r.modifiedVars),
                             Cardinality(r.controlVars),
                             Cardinality(r.unusedVars))
    /\ gathered' = [inputVars |-> inputVars, modifiedVars |-> modifiedVars,
                     controlVars |-> controlVars, unusedVars |-> unusedVars]
    /\ pc' = "cyclo"
    /\ UNCHANGED <<cg, bi, ni, si, prevNodeID, lastNodeID, loopID, dot, variables,
                   traceDone, numEdges, numNodes, cyclomaticComplexity, run,
                   firstDot>>
    /\ UNCHANGED findVars

\* main.go:728-748: the cyclomatic complexity, the cleanup of the labels and
\* the closing brace
Cyclomatic ==
    /\ pc = "cyclo"
    /\ LET c == CountLive(cg.Blocks, 1, [numNodes |-> 0, numEdges |-> 0])
       IN  /\ numNodes' = c.numNodes
           /\ numEdges' = c.numEdges
           /\ cyclomaticComplexity' = c.numEdges - c.numNodes + 2
    /\ dot' = Append([k \in 1..Len(dot) |-> CleanLabel(cg, dot[k])], CloseStmt)
    /\ pc' = "done"
    /\ UNCHANGED <<cg, bi, ni, si, prevNodeID, lastNodeID, loopID, variables,
                   inputVars, modifiedVars, controlVars, unusedVars, traceDone,
                   Q2, run, firstDot, gathered>>
    /\ UNCHANGED findVars

Next ==
    \/ VisitBlock
    \/ VisitNode
    \/ EmitSuccEdge
    \/ EmitTraceEdges
    \/ ChepinScore
    \/ Cyclomatic

(***************************************************************************)
(* Inputs.  A CFG of the cfg package numbers its blocks by position and    *)
(* marks live the blocks reachable from block 0.                           *)
(***************************************************************************)
SeqsUpTo(S, n) == UNION {[1..k -> S] : k \in 0..n}

Range(f) == {f[k] : k \in DOMAIN f}

RECURSIVE ReachableFrom(_, _)
ReachableFrom(succs, seen) ==
    LET more == seen \cup UNION {Range(succs[i + 1]) : i \in seen}
    IN  IF more = seen THEN seen ELSE ReachableFrom(succs, more)

\* the CFG with the given kinds, nodes and successors per block
MakeCFG(kinds, nodes, succs) ==
    LET live == ReachableFrom(succs, {0})
    IN  [Blocks |-> [k \in 1..Len(nodes) |->
            Block(k - 1, (k - 1) \in live, kinds[k], nodes[k], succs[k])]]

VarX == Ident("x")

VarY == Ident("y")

Cond == BinaryExpr(VarX, "<", BasicLit("2"))

\* the statement nodes the entry block is filled from
NodePool ==
    { AssignStmt(<<VarX>>, <<BasicLit("1")>>),
      AssignStmt(<<VarX>>, <<BasicLit("2")>>),
      AssignStmt(<<VarX>>, <<BinaryExpr(VarX, "+", BasicLit("1"))>>),
      AssignStmt(<<VarY, VarX>>, <<CallExpr(Ident("f"), <<>>)>>),
      AssignStmt(<<IndexExpr(Ident("a"), BasicLit("0"))>>, <<BasicLit("1")>>),
      ValueSpec(<<"y", "x">>, <<CallExpr(Ident("f"), <<>>)>>),
      DeclStmt(ValueSpec(<<"y">>, <<>>)),
      ReturnStmt(<<VarX>>),
      IncDecStmt(VarY, "++"),
      Cond,
      IfStmt(Cond, FALSE),
      IfStmt(Cond, TRUE),
      ForStmt(Cond),
      BranchStmt("continue"),
      BranchStmt("break"),
      BranchStmt("goto"),
      ExprStmt(CallExpr(Ident("f"), <<VarX>>)),
      GoStmt }

\* the nodes of the second block
TailPool == { <<>>, <<BranchStmt("continue")>>, <<ReturnStmt(<<VarX, VarY>>)>> }

\* the successors of the entry block
EntrySuccs == { <<>>, <<1>>, <<1, 2>> }

\* three blocks: the entry block, a branch target and an empty join
NodeCFGs ==
    { MakeCFG(<<"Body", "IfThen", "IfDone">>, <<nodes, tail, <<>> >>,
              <<succs, <<>>, <<>> >>) :
        nodes \in SeqsUpTo(NodePool, MaxNodes), tail \in TailPool,
        succs \in EntrySuccs }

Init == \E g \in NodeCFGs : Entry(g)

Spec == Init /\ [][Next]_vars

(***************************************************************************)
(* Graph-shaped inputs: NumBlocks blocks; the entry block holds a          *)
(* statement, every other block holds one or none; a block has at most two *)
(* successors, the next block and the one after it (counted cyclically).   *)
(***************************************************************************)
KindCycle == <<"Body", "IfThen", "IfElse", "IfDone", "ForBody", "ForDone", "ForLoop">>

KindOf(index) == KindCycle[(index % Len(KindCycle)) + 1]

SuccChoices(index) ==
    LET n1 == (index + 1) % NumBlocks
        n2 == (index + 2) % NumBlocks
    IN  { <<>>, <<n1>>, <<n2>>, <<n1, n2>> }

NodeChoices(index) ==
    IF index = 0 THEN { <<AssignStmt(<<VarX>>, <<BasicLit("1")>>)>> }
    ELSE { <<>>, <<AssignStmt(<<VarX>>, <<BasicLit("1")>>)>> }

GraphCFGs ==
    { MakeCFG([k \in 1..NumBlocks |-> KindOf(k - 1)], nodes, succs) :
        nodes \in {f \in [1..NumBlocks -> UNION {NodeChoices(i) : i \in 0..(NumBlocks - 1)}] :
                     \A k \in 1..NumBlocks : f[k] \in NodeChoices(k - 1)},
        succs \in {f \in [1..NumBlocks -> UNION {SuccChoices(i) : i \in 0..(NumBlocks - 1)}] :
                     \A k \in 1..NumBlocks : f[k] \in SuccChoices(k - 1)} }

InitGraph == \E g \in GraphCFGs : Entry(g)

SpecGraph == InitGraph /\ [][Next]_vars

(***************************************************************************)
(* Two calls of genDot on the same CFG (main.go:835 called again): the     *)
(* second call starts from fresh locals; firstDot keeps the first          *)
(* document.                                                               *)
(***************************************************************************)
Rerun ==
    /\ pc = "done"
    /\ run = 1
    /\ run' = 2
    /\ firstDot' = dot
    /\ pc' = "blocks"
    /\ bi' = 0 /\ ni' = 0 /\ si' = 0
    /\ prevNodeID' = "" /\ lastNodeID' = "" /\ loopID' = ""
    /\ dot' = <<OpenStmt>>
    /\ variables' = <<>>
    /\ inputVars' = <<>>
    /\ modifiedVars' = {} /\ controlVars' = {} /\ unusedVars' = {}
    /\ traceDone' = {}
    /\ Q2' = 0 /\ numEdges' = 0 /\ numNodes' = 0 /\ cyclomaticComplexity' = 0
    /\ gathered' = NoSets
    /\ UNCHANGED cg
    /\ UNCHANGED findVars

NextTwice ==
    \/ Next
    \/ Rerun

SpecTwice == Init /\ [][NextTwice]_vars

(***************************************************************************)
(* Properties.                                                             *)
(***************************************************************************)
BlockIndexes == 0..(Len(cg.Blocks) - 1)

LiveBlocks == {b \in BlockIndexes : BlockAt(cg, b).Live}

\* the traversal is past the loop over the blocks and has not panicked
Traversed == pc \in {"trace", "chepin", "cyclo", "done"}

\* node i of block b has been classified, without a panic
Classified(b, i) ==
    /\ b \in LiveBlocks
    /\ i \in 0..(Len(BlockAt(cg, b).Nodes) - 1)
    /\ \/ b < bi
       \/ b = bi /\ pc \in {"nodes", "succs", "panic"} /\ i < ni

\* C1: the cyclomatic complexity genDot computes is E - N + 2, N the number
\* of live blocks and E the number of successor entries of the live blocks;
\* blocks that are not live count in neither.
LiveEdgeSlots ==
    UNION {{<<b, k>> : k \in 1..Len(BlockAt(cg, b).Succs)} : b \in LiveBlocks}

C1_Cyclomatic ==
    pc = "done" =>
        /\ numNodes = Cardinality(LiveBlocks)
        /\ numEdges = Cardinality(LiveEdgeSlots)
        /\ cyclomaticComplexity
              = Cardinality(LiveEdgeSlots) - Cardinality(LiveBlocks) + 2

\* a finished run on a CFG with a block that is not live and has successors,
\* and with live blocks that have successors
C1_Witness ==
    /\ pc = "done"
    /\ \E b \in BlockIndexes \ LiveBlocks : Len(BlockAt(cg, b).Succs) > 0
    /\ Cardinality(LiveEdgeSlots) > Cardinality(LiveBlocks)

\* the blocks at most k successor steps away from block t
RECURSIVE Within(_, _)
Within(t, k) ==
    IF k = 0 THEN {t}
    ELSE LET w == Within(t, k - 1)
         IN  w \cup UNION {Range(BlockAt(cg, b).Succs) : b \in w}

HasNodes(b) == Len(BlockAt(cg, b).Nodes) > 0

\* the distances at which a statement-bearing block is found from block t
NodeDistances(t) ==
    {k \in 0..Len(cg.Blocks) : \E b \in Within(t, k) : HasNodes(b)}

MinOf(S) == CHOOSE m \in S : \A n \in S : m <= n

\* the anchors the rule allows for an edge into block t
Anchors(t) ==
    IF HasNodes(t) THEN {NodeID(t, 0)}
    ELSE IF NodeDistances(t) = {} THEN {BlockID(t)}
    ELSE {NodeID(b, 0) : b \in {c \in Within(t, MinOf(NodeDistances(t))) : HasNodes(c)}}

\* the cross-block edges emitted after the last node of block b, in order
CrossEdges(b) ==
    SelectSeq(dot, LAMBDA e :
        /\ e.fmt \in {"cross", "decorate"}
        /\ e.src = NodeID(b, Len(BlockAt(cg, b).Nodes) - 1))

\* the successor loop of block b has finished
SuccsDone(b) == b < bi \/ Traversed

\* C6: for every live block with a statement and every successor of it, the
\* cross-block edge emitted after the block's last node is anchored at the
\* target's first statement if it has one, else at the first statement of a
\* statement-bearing block at minimum successor distance from the target,
\* else (none reachable) at the target's placeholder.
C6_Anchor ==
    \A b \in LiveBlocks :
        (HasNodes(b) /\ SuccsDone(b)) =>
            /\ Len(CrossEdges(b)) = Len(BlockAt(cg, b).Succs)
            /\ \A k \in 1..Len(BlockAt(cg, b).Succs) :
                  CrossEdges(b)[k].dst \in Anchors(BlockAt(cg, b).Succs[k])

\* a finished run with an edge into an empty block t that has a successor
\* with statements and an empty successor which leads to another block with
\* statements, one step further away
C6_Witness ==
    /\ pc = "done"
    /\ \E b \in LiveBlocks : \E k \in 1..Len(BlockAt(cg, b).Succs) :
          LET t == BlockAt(cg, b).Succs[k]
          IN  /\ HasNodes(b) /\ ~HasNodes(t)
              /\ \E near, far \in Range(BlockAt(cg, t).Succs) :
                    /\ HasNodes(near) /\ ~HasNodes(far)
                    /\ \E c \in Range(BlockAt(cg, far).Succs) :
                          HasNodes(c) /\ c # near
              /\ CrossEdges(b)[k].dst # BlockID(t)

\* a finished run with an edge into an empty block from which no block with
\* statements is reachable
C6_DeadEnd ==
    /\ pc = "done"
    /\ \E b \in LiveBlocks : \E k \in 1..Len(BlockAt(cg, b).Succs) :
          HasNodes(b) /\ NodeDistances(BlockAt(cg, b).Succs[k]) = {}

\* the role sets the stated reconciliation yields from the gathered ones:
\* controlSet members leave inputSet and modifiedSet, then modifiedSet
\* members leave inputSet, then the names left in inputSet that were counted
\* once move to unusedSet
ExpectedControl == gathered.controlVars

ExpectedModified == gathered.modifiedVars \ ExpectedControl

ExpectedRemaining ==
    ((DOMAIN gathered.inputVars) \ ExpectedControl) \ ExpectedModified

ExpectedUnused ==
    gathered.unusedVars \cup {v \in ExpectedRemaining : gathered.inputVars[v] = 1}

ExpectedInput == {v \in ExpectedRemaining : gathered.inputVars[v] # 1}

Scored == pc \in {"cyclo", "done"}

\* C2: the Chepin score is |inputSet| + 2|modifiedSet| + 3|controlSet|
\* + 0.5|unusedSet| over the sets left by the reconciliation (Q2 is twice the
\* score); a name's recorded occurrences are its count in inputVars.
C2_Chepin ==
    Scored =>
        /\ DOMAIN inputVars = ExpectedInput
        /\ modifiedVars = ExpectedModified
        /\ controlVars = ExpectedControl
        /\ unusedVars = ExpectedUnused
        /\ Q2 = 2 * Cardinality(ExpectedInput) + 4 * Cardinality(ExpectedModified)
                  + 6 * Cardinality(ExpectedControl) + Cardinality(ExpectedUnused)

\* a scored run in which a control name was taken out of inputSet and a name
\* counted once was moved to unusedSet, giving a score with a half
C2_Witness ==
    /\ pc = "done"
    /\ gathered.controlVars \cap DOMAIN gathered.inputVars # {}
    /\ unusedVars # {}
    /\ Q2 % 2 = 1

\* C3: after the reconciliation inputSet, modifiedSet and controlSet are
\* pairwise disjoint.
C3_Disjoint ==
    Scored =>
        /\ (DOMAIN inputVars) \cap controlVars = {}
        /\ modifiedVars \cap controlVars = {}
        /\ (DOMAIN inputVars) \cap modifiedVars = {}

\* a scored run whose gathered sets overlapped pairwise
C3_Witness ==
    /\ pc = "done"
    /\ (DOMAIN gathered.inputVars) \cap gathered.controlVars # {}
    /\ gathered.modifiedVars \cap gathered.controlVars # {}
    /\ (DOMAIN gathered.inputVars) \cap gathered.modifiedVars # {}

\* the trace edges of name v in the document, in order
TraceOf(v) == SelectSeq(dot, LAMBDA e : e.fmt = "trace" /\ e.label = v)

\* C5: a name with k recorded occurrences gets no trace edge when k < 2 and
\* k-1 trace edges when k >= 2, the i-th from the node of occurrence i to the
\* node of occurrence i+1; x=1; x=2 gives exactly one trace edge, from the
\* first x node to the second.
C5_TraceEdges ==
    /\ \A v \in traceDone :
          LET k == Len(variables[v])
          IN  /\ Len(TraceOf(v)) = IF k < 2 THEN 0 ELSE k - 1
              /\ \A i \in 1..Len(TraceOf(v)) :
                    /\ TraceOf(v)[i].src = variables[v][i]
                    /\ TraceOf(v)[i].dst = variables[v][i + 1]
    /\ \A i \in 1..Len(dot) : dot[i].fmt = "trace" => dot[i].label \in traceDone
    /\ ( /\ pc = "done"
         /\ BlockAt(cg, 0).Nodes = <<AssignStmt(<<VarX>>, <<BasicLit("1")>>),
                                     AssignStmt(<<VarX>>, <<BasicLit("2")>>)>>
         /\ \A b \in LiveBlocks \ {0} : BlockAt(cg, b).Nodes = <<>> )
       => TraceOf("x") = <<EdgeStmt("trace", NodeID(0, 0), NodeID(0, 1), "x", "")>>

\* a finished run with a name recorded three times, across two blocks, and a
\* name recorded once
C5_Witness ==
    /\ pc = "done"
    /\ \E v, w \in DOMAIN variables :
          /\ Len(variables[v]) = 3 /\ Len(TraceOf(v)) = 2
          /\ TraceOf(v)[2].dst = NodeID(1, 0)
          /\ Len(variables[w]) = 1

\* C4: two runs of genDot on the same CFG produce identical documents, the
\* order of the trace edges of different names included.
C4_Idempotent == (run = 2 /\ pc = "done") => dot = firstDot

\* the positions <<block, node>> of the statement nodes of the live blocks
Positions ==
    UNION {{<<b, i>> : i \in 0..(Len(BlockAt(cg, b).Nodes) - 1)} : b \in LiveBlocks}

NodeAt(p) == BlockAt(cg, p[1]).Nodes[p[2] + 1]

Before(p, q) == p[1] < q[1] \/ (p[1] = q[1] /\ p[2] < q[2])

\* the Loop nodes classified before position p
LoopsBefore(p) == {q \in Positions : NodeAt(q).t = "ForStmt" /\ Before(q, p)}

Latest(S) == CHOOSE q \in S : \A r \in S : r = q \/ Before(r, q)

\* C7: the edge of a continue or break node targets the node of the most
\* recently classified Loop node of the traversal, also when that node
\* belongs to an earlier block; the target is never empty when a Loop node
\* was classified before.
C7_JumpTarget ==
    \A p \in Positions :
        \A k \in 1..Len(dot) :
            ( /\ dot[k].fmt = "jump"
              /\ dot[k].src = NodeID(p[1], p[2])
              /\ LoopsBefore(p) # {} )
            => LET q == Latest(LoopsBefore(p))
               IN  dot[k].dst = NodeID(q[1], q[2])

\* the node the traversal is at
AtNode == pc \in {"nodes", "panic"} /\ ni < Len(CurrentBlock.Nodes)

\* the if/for node n expects more successors than its block has
Malformed(block, n) ==
    \/ n.t = "IfStmt" /\ Len(block.Succs) < (IF n.Else THEN 2 ELSE 1)
    \/ n.t = "ForStmt" /\ Len(block.Succs) < 2

\* C8: an if or for node in a block with fewer successors than the node
\* expects loses only the malformed edge; the traversal never aborts on it.
C8_MalformedSkipped ==
    ~( /\ pc = "panic"
       /\ AtNode
       /\ Malformed(CurrentBlock, CurrentBlock.Nodes[ni + 1]) )

\* the names of declaration or assignment node n that have no value
MissingValue(n) ==
    CASE n.t = "ValueSpec" -> {n.Names[j] : j \in (Len(n.Values) + 1)..Len(n.Names)}
      [] n.t = "DeclStmt" ->
            {n.Spec.Names[j] : j \in (Len(n.Spec.Values) + 1)..Len(n.Spec.Names)}
      [] n.t = "AssignStmt" ->
            {n.Lhs[j].Name : j \in {i \in (Len(n.Rhs) + 1)..Len(n.Lhs) :
                                       n.Lhs[i].t = "Ident"}}
      [] OTHER -> {}

Sentinel(n) == IF n.t = "ValueSpec" THEN "nul" ELSE "nil"

\* C9: a declared or assigned name with no corresponding value is labelled
\* with the sentinel and the traversal continues; the case never aborts it.
C9_SentinelNoAbort ==
    /\ \A p \in Positions :
          Classified(p[1], p[2]) =>
             \A name \in MissingValue(NodeAt(p)) :
                \E k \in 1..Len(dot) :
                   dot[k] = NodeStmt(NodeID(p[1], p[2]),
                                     name \o " = " \o Sentinel(NodeAt(p)))
    /\ ~( /\ pc = "panic"
          /\ AtNode
          /\ MissingValue(CurrentBlock.Nodes[ni + 1]) # {} )

\* C10: every classified statement node of a live block has at least one
\* node-description statement carrying its identifier.
C10_EveryNodeLabelled ==
    \A p \in Positions :
        Classified(p[1], p[2]) =>
            \E k \in 1..Len(dot) :
                dot[k].fmt = "node" /\ dot[k].src = NodeID(p[1], p[2])

(***************************************************************************)
(* The functions of the scenarios: a=0; b=1; if n<lit {return n}, with the *)
(* test delivered as the condition expression (as cfg.New adds it) or as   *)
(* the if statement itself, and the empty function body.                   *)
(***************************************************************************)
VarN == Ident("n")

TestForms(lit) ==
    { BinaryExpr(VarN, "<", BasicLit(lit)),
      IfStmt(BinaryExpr(VarN, "<", BasicLit(lit)), FALSE) }

\* a=0; b=1; <test>  ->  (IfThen) return n  |  (IfDone)
BranchCFG(test) ==
    MakeCFG(<<"Body", "IfThen", "IfDone">>,
            << <<AssignStmt(<<Ident("a")>>, <<BasicLit("0")>>),
                 AssignStmt(<<Ident("b")>>, <<BasicLit("1")>>),
                 test>>,
               <<ReturnStmt(<<VarN>>)>>,
               <<>> >>,
            << <<1, 2>>, <<>>, <<>> >>)

\* one live block with no statements and no successors
EmptyBodyCFG == MakeCFG(<<"Body">>, << <<>> >>, << <<>> >>)

ScenarioCFGs ==
    {BranchCFG(test) : test \in TestForms("2") \cup TestForms("3") \cup TestForms("10")}
        \cup {EmptyBodyCFG}

InitScenario == \E g \in ScenarioCFGs : Entry(g)

SpecScenario == InitScenario /\ [][Next]_vars

\* C11: for a=0; b=1; if n<2 {return n} the control set reported after
\* scoring is exactly {n}.
C11_ControlSet ==
    (Scored /\ cg \in {BranchCFG(test) : test \in TestForms("2")})
        => controlVars = {"n"}

\* C12 as stated: for the empty function body the cyclomatic complexity
\* computed by genDot is 2.
C12_EmptyBodyIsTwo ==
    (pc = "done" /\ cg = EmptyBodyCFG) => cyclomaticComplexity = 2

\* C12 as amended: for the empty function body (one live block, no
\* statements, no successors) the cyclomatic complexity computed by genDot
\* is 1, that is 0 - 1 + 2.
C12_EmptyBodyIsOne ==
    (pc = "done" /\ cg = EmptyBodyCFG) => cyclomaticComplexity = 1

\* a finished run on the empty body: one block counted, no edge
C12_Witness ==
    /\ pc = "done"
    /\ cg = EmptyBodyCFG
    /\ numNodes = 1
    /\ numEdges = 0
    /\ dot = <<OpenStmt, CloseStmt>>

(***************************************************************************)
(* findNextBlockWithNodes step by step (main.go:751-773): one action per   *)
(* iteration of its loop, for any block graph and any start index.         *)
(***************************************************************************)
genDotVars == <<cg, pc, bi, ni, si, prevNodeID, lastNodeID, loopID,
                dot, variables, inputVars, modifiedVars, controlVars,
                unusedVars, traceDone, Q2, numEdges, numNodes,
                cyclomaticComplexity, run, firstDot, gathered>>

\* Unvisited without the test of the visited-set: every successor is queued
AllSuccs(succs, visited, currentIndex) == succs

\* main.go:758 and 765-769: the successors appended to the queue, currentIndex
\* being marked first
Unvisited(succs, visited, currentIndex) ==
    SelectSeq(succs, LAMBDA s : s \notin (visited \cup {currentIndex}))

\* main.go:752-753
FindCall ==
    /\ findPc = "call"
    /\ findVisited' = {}
    /\ findQueue' = <<findStart>>
    /\ findPc' = "loop"
    /\ UNCHANGED <<findStart, findResult>>
    /\ UNCHANGED genDotVars

\* main.go:755-769: one iteration of the loop
FindIter ==
    /\ findPc = "loop"
    /\ Len(findQueue) > 0
    /\ LET currentIndex == Head(findQueue)
           currentBlock == BlockAt(cg, currentIndex)
       IN  /\ findVisited' = findVisited \cup {currentIndex}
           /\ IF Len(currentBlock.Nodes) > 0
              THEN /\ findResult' = currentIndex
                   /\ findPc' = "returned"
                   /\ findQueue' = Tail(findQueue)
              ELSE /\ findQueue' = Tail(findQueue)
                          \o Unvisited(currentBlock.Succs, findVisited,
                                       currentIndex)
                   /\ UNCHANGED <<findPc, findResult>>
    /\ UNCHANGED findStart
    /\ UNCHANGED genDotVars

\* main.go:755 and 772: the queue is empty
FindReturnNil ==
    /\ findPc = "loop"
    /\ Len(findQueue) = 0
    /\ findResult' = Nil
    /\ findPc' = "returned"
    /\ UNCHANGED <<findStart, findQueue, findVisited>>
    /\ UNCHANGED genDotVars

NextFind ==
    \/ FindCall
    \/ FindIter
    \/ FindReturnNil

Assign1 == AssignStmt(<<VarX>>, <<BasicLit("1")>>)

\* an empty block that is its own successor
SelfLoopCFG ==
    MakeCFG(<<"Body", "ForLoop">>, << <<Assign1>>, <<>> >>, << <<1>>, <<1>> >>)

\* an empty block with the same successor twice, on a cycle of empty blocks
DoubleEdgeCFG ==
    MakeCFG(<<"Body", "IfDone", "ForLoop", "ForDone">>,
            << <<Assign1>>, <<>>, <<>>, <<Assign1>> >>,
            << <<1>>, <<2, 2>>, <<1, 3>>, <<>> >>)

FindCFGs == GraphCFGs \cup {SelfLoopCFG, DoubleEdgeCFG}

\* a call findNextBlockWithNodes(cg, startIndex) about to run; genDot, the
\* caller (main.go:654), stands still meanwhile
InitFind ==
    \E g \in FindCFGs : \E startIndex \in 0..(Len(g.Blocks) - 1) :
        /\ cg = g
        /\ pc = "find"
        /\ bi = 0 /\ ni = 0 /\ si = 0
        /\ prevNodeID = "" /\ lastNodeID = "" /\ loopID = ""
        /\ dot = <<OpenStmt>>
        /\ variables = <<>>
        /\ inputVars = <<>>
        /\ modifiedVars = {} /\ controlVars = {} /\ unusedVars = {}
        /\ traceDone = {}
        /\ Q2 = 0 /\ numEdges = 0 /\ numNodes = 0 /\ cyclomaticComplexity = 0
        /\ run = 1 /\ firstDot = <<>>
        /\ gathered = NoSets
        /\ findPc = "call"
        /\ findStart = startIndex
        /\ findQueue = <<>>
        /\ findVisited = {}
        /\ findResult = Nil

\* the call is one sequential computation: it keeps taking steps until it
\* returns
SpecFind == InitFind /\ [][NextFind]_vars /\ WF_vars(NextFind)

\* C13: every call of findNextBlockWithNodes returns, whatever the block
\* graph and the start index, cycles of empty blocks included; when no
\* statement-bearing block is reachable from the start it returns nil.
C13_Terminates ==
    /\ <>(findPc = "returned")
    /\ [](findPc = "returned" /\ NodeDistances(findStart) = {}
             => findResult = Nil)

\* a call that returned nil after walking a cycle of empty blocks
C13_Witness ==
    /\ findPc = "returned"
    /\ findResult = Nil
    /\ NodeDistances(findStart) = {}
    /\ Cardinality(findVisited) >= 2
    /\ \E b \in findVisited : findStart \in Range(BlockAt(cg, b).Succs)

\* a call that returned the nearest statement-bearing block past an empty
\* block that lies on a cycle
C13_FoundPastCycle ==
    /\ findPc = "returned"
    /\ findResult # Nil
    /\ findResult # findStart
    /\ \E b \in findVisited \ {findResult} :
           findStart \in Range(BlockAt(cg, b).Succs)

\* the step-wise call returns what the operator findNextBlockWithNodes gives
FindAgrees ==
    findPc = "returned" => findResult = findNextBlockWithNodes(cg, findStart)

(***************************************************************************)
(* Inputs for the colour of the cross-block edges: an entry block with one *)
(* statement and two successors of any kind, each with a statement or      *)
(* empty, the first leading on to the second or nowhere.                   *)
(***************************************************************************)
\* the block kinds of golang.org/x/tools/go/cfg, as Block.Kind prints them
AllKinds ==
    { "Body", "ForBody", "ForDone", "ForLoop", "ForPost", "IfDone", "IfElse",
      "IfThen", "Label", "RangeBody", "RangeDone", "RangeLoop",
      "SelectCaseBody", "SelectDone", "SelectAfterCase", "SwitchCaseBody",
      "SwitchDone", "SwitchNextCase", "Unreachable" }

KindCFGs ==
    { MakeCFG(<<"Body", k1, k2>>, << <<Assign1>>, n1, n2 >>,
              << <<1, 2>>, s1, <<>> >>) :
        k1 \in AllKinds, k2 \in AllKinds,
        n1 \in { <<>>, <<Assign1>> }, n2 \in { <<>>, <<Assign1>> },
        s1 \in { <<>>, <<2>> } }

InitKinds == \E g \in KindCFGs : Entry(g)

SpecKinds == InitKinds /\ [][Next]_vars

\* the colour the claim states for a successor of the given kind
StatedColor(kind) ==
    IF kind \in {"IfThen", "ForBody"} THEN "yellow"
    ELSE IF kind \in {"IfElse", "ForDone"} THEN "red"
    ELSE "black"

\* the same with the if-done kind among the negative ones
AmendedColor(kind) ==
    IF kind \in {"IfThen", "ForBody"} THEN "yellow"
    ELSE IF kind \in {"IfElse", "ForDone", "IfDone"} THEN "red"
    ELSE "black"

\* every successor of block b has its edge after b's last node, and the k-th
\* edge has the colour that `coloring` gives the kind of the k-th successor
EdgesColored(b, coloring) ==
    LET succs == BlockAt(cg, b).Succs
        edges == CrossEdges(b)
    IN  /\ Len(edges) = Len(succs)
        /\ \A k \in 1..Len(succs) :
               edges[k].color = coloring[BlockAt(cg, succs[k]).Kind]

\* C14 as stated: the colour of every cross-block edge emitted after a
\* block's last node is yellow for successor kinds then and loop-body, red
\* for else and loop-exit, and black for every other kind, if-done included.
C14_ColorAsStated ==
    \A b \in LiveBlocks :
        (HasNodes(b) /\ SuccsDone(b))
            => EdgesColored(b, [k \in AllKinds |-> StatedColor(k)])

\* C14 as amended: the colour of every cross-block edge emitted after a
\* block's last node depends only on the kind of the successor: yellow for
\* then and loop-body, red for else, loop-exit and if-done, black for every
\* other kind.
C14_ColorByKind ==
    \A b \in LiveBlocks :
        (HasNodes(b) /\ SuccsDone(b))
            => EdgesColored(b, [k \in AllKinds |-> AmendedColor(k)])

\* a finished document whose entry block has an empty if-done successor,
\* drawn red to the first statement of the block behind it, and a successor
\* of another kind, drawn black
C14_Witness ==
    /\ pc = "done"
    /\ cg \in KindCFGs
    /\ BlockAt(cg, 1).Kind = "IfDone" /\ ~HasNodes(1)
    /\ BlockAt(cg, 1).Succs = <<2>>
    /\ BlockAt(cg, 2).Kind = "SwitchDone" /\ HasNodes(2)
    /\ Len(CrossEdges(0)) = 2
    /\ CrossEdges(0)[1].color = "red"
    /\ CrossEdges(0)[1].dst = NodeID(2, 0)
    /\ CrossEdges(0)[2].color = "black"

\* a finished document with a yellow edge, a red edge to a loop exit
C14_LoopColors ==
    /\ pc = "done"
    /\ cg \in KindCFGs
    /\ BlockAt(cg, 1).Kind = "ForBody"
    /\ BlockAt(cg, 2).Kind = "ForDone"
    /\ Len(CrossEdges(0)) = 2
    /\ CrossEdges(0)[1].color = "yellow"
    /\ CrossEdges(0)[2].color = "red"

====
